---- MODULE Spec2Model ----
(***************************************************************************)
(* Model of rewrite_permalinks.py: the per-document panel rewrite of       *)
(* process_file (permalink anchor + exported marker), the backup/overwrite *)
(* of the file, and the command line loop over the file arguments.         *)
(*                                                                         *)
(* Strings are sequences of tokens ("dfn-", "panel-for-", "x", ...), so    *)
(* that prefixes, concatenation and the regular expression of the source   *)
(* are computed, not assumed.  A file's content (an HTML string) is a      *)
(* nested tree; the parsed BeautifulSoup document is a store of nodes with *)
(* identities, so that "the same node" is meaningful across edits.         *)
(***************************************************************************)
EXTENDS Integers, Sequences, FiniteSets

\* ------------------------------------------------------------------ bounds
MaxNodes == 3      \* elements of a generated document body
MaxArgs  == 3      \* file arguments on the command line

\* ----------------------------------------------------------------- strings
NoStr == << >>                                   \* absent attribute or ''
PanelPrefix == << "dfn-", "panel-for-" >>        \* 'dfn-panel-for-'
DfnPrefix   == << "dfn-" >>                      \* 'dfn-'

StartsWith(s, p) == Len(s) >= Len(p) /\ SubSeq(s, 1, Len(p)) = p
Drop(s, k) == SubSeq(s, k + 1, Len(s))
Range(s) == { s[i] : i \in DOMAIN s }

\* re.match(r'dfn-panel-for-(?:dfn-)?(.+)', pid): the match succeeds iff the
\* prefix is there and at least one character follows it.
PidMatches(pid) == StartsWith(pid, PanelPrefix) /\ Len(pid) > Len(PanelPrefix)

\* m.group(1): the optional 'dfn-' is consumed greedily, and given back when
\* nothing would be left for (.+).
DfnSuffix(pid) ==
    LET rest == Drop(pid, Len(PanelPrefix))
    IN  IF StartsWith(rest, DfnPrefix) /\ Len(rest) > Len(DfnPrefix)
        THEN Drop(rest, Len(DfnPrefix))
        ELSE rest

DfnIdOf(suffix) ==
    IF StartsWith(suffix, DfnPrefix) THEN suffix ELSE DfnPrefix \o suffix

HrefFor(dfn_id) == << "#" >> \o dfn_id
AriaFor(dfn_id) ==
    << "Permalink for definition: " >> \o dfn_id
        \o << ". Activate to close this dialog." >>

\* --------------------------------------------------- file content (nested)
\* An element of the HTML text; text is its string content.
Elem(tag, cls, id, href, text, kids) ==
    [tag |-> tag, cls |-> cls, id |-> id, href |-> href, aria |-> NoStr,
     title |-> NoStr, text |-> text, kids |-> kids]

SelfLinkCls == << "self-link" >>
MarkerCls   == << "marker", "dfn-exported" >>
PanelCls    == << "dfn-panel" >>

\* a permalink anchor with a stale target, an anchor of a reference list,
\* an exported marker
SelfLink == Elem("a", SelfLinkCls, NoStr, << "#", "old" >>, << "old" >>, << >>)
RefLink  == Elem("a", NoStr, NoStr, << "#", "ref-for-", "dfn-", "x" >>, << "ref" >>, << >>)
Marker   == Elem("span", MarkerCls, NoStr, NoStr, << "exported" >>, << >>)
\* panels: dfn-panel-for-dfn-x, dfn-panel-for-y, dfn-panel-for- (no match),
\* random-widget (no match), no id attribute; a div that is no panel
PanelX   == Elem("div", PanelCls, << "dfn-", "panel-for-", "dfn-", "x" >>, NoStr, NoStr, << >>)
PanelY   == Elem("div", PanelCls, << "dfn-", "panel-for-", "y" >>, NoStr, NoStr, << >>)
PanelP   == Elem("div", PanelCls, << "dfn-", "panel-for-" >>, NoStr, NoStr, << >>)
PanelW   == Elem("div", PanelCls, << "random-widget" >>, NoStr, NoStr, << >>)
PanelN   == Elem("div", PanelCls, NoStr, NoStr, NoStr, << >>)
PlainDiv == Elem("div", NoStr, NoStr, NoStr, NoStr, << >>)
With(e, kids) == [e EXCEPT !.kids = kids]

LeafKinds == { SelfLink, RefLink, Marker }
ContainerKinds == { PanelX, PanelN, PlainDiv }

RECURSIVE ForestsOfSize(_), TreesOfSize(_)
\* every tree with exactly n nodes
TreesOfSize(n) ==
    IF n = 0 THEN {}
    ELSE (IF n = 1 THEN LeafKinds ELSE {})
         \cup { With(c, f) : c \in ContainerKinds, f \in ForestsOfSize(n - 1) }
\* every sequence of trees with exactly n nodes in total
ForestsOfSize(n) ==
    IF n = 0 THEN { << >> }
    ELSE UNION { { << t >> \o f : t \in TreesOfSize(k), f \in ForestsOfSize(n - k) }
                 : k \in 1..n }

Bodies == UNION { ForestsOfSize(n) : n \in 0..MaxNodes }

\* A <dfn> element: its id, its class tokens, whether it has data-export.
DfnKinds ==
    { [id |-> i, cls |-> c, dataExport |-> d] :
        i \in { << "dfn-", "x" >>, << "x" >> },
        c \in { NoStr, << "export" >> },
        d \in BOOLEAN } \ { [id |-> i, cls |-> << "export" >>, dataExport |-> TRUE] :
                              i \in { << "dfn-", "x" >>, << "x" >> } }

Dfn(id, cls, dataExport) == [id |-> id, cls |-> cls, dataExport |-> dataExport]
ExportedX == Dfn(<< "dfn-", "x" >>, << "export" >>, FALSE)
PlainX    == Dfn(<< "dfn-", "x" >>, NoStr, FALSE)
LegacyX   == Dfn(<< "x" >>, << "export" >>, FALSE)

\* The <dfn> elements of a document, in document order: none, any one, the
\* same id twice, an id and its legacy form.
DfnLists ==
    { << >> } \cup { << d >> : d \in DfnKinds }
    \cup { << ExportedX, PlainX >>, << LegacyX, PlainX >> }

RECURSIVE SeqsUpTo(_, _)
SeqsUpTo(S, n) ==
    IF n = 0 THEN { << >> }
    ELSE { << >> } \cup { << x >> \o s : x \in S, s \in SeqsUpTo(S, n - 1) }

Doc(dfns, body) == [dfns |-> dfns, body |-> body]

\* Larger documents: a panel as the generators lay it out, with its reference
\* anchor, for an exported definition; the same with a stale marker; a panel
\* with two markers; a widget that is no definition panel next to a panel.
DocTypical    == Doc(<< ExportedX >>, << With(PanelX, << With(PlainDiv, << SelfLink, RefLink >>) >>) >>)
DocStale      == Doc(<< PlainX >>, << With(PanelX, << With(PlainDiv, << SelfLink, Marker, RefLink >>) >>) >>)
DocTwoMarkers == Doc(<< >>, << With(PanelX, << SelfLink, Marker, Marker >>) >>)
DocWidget     == Doc(<< ExportedX >>, << With(PanelW, << SelfLink, Marker >>),
                                         With(PanelX, << With(PlainDiv, << SelfLink >>) >>) >>)
ExtraDocs == { DocTypical, DocStale, DocTwoMarkers, DocWidget }

\* A document as stored in a file: the <dfn> elements in document order and
\* the forest of all other nodes.
Docs == { Doc(d, b) : d \in DfnLists, b \in Bodies } \cup ExtraDocs

\* ------------------------------------------------- parsed document (store)
None == 0          \* Python's None for a node reference; node ids start at 1

RECURSIVE Size(_), FSize(_)
Size(e) == 1 + FSize(e.kids)
FSize(f) == IF f = << >> THEN 0 ELSE Size(Head(f)) + FSize(Tail(f))

\* ids of the roots of forest f when its nodes are numbered in document order
\* after b
KidIds(f, b) == [j \in 1..Len(f) |-> b + 1 + FSize(SubSeq(f, 1, j - 1))]

\* A parsed tag.  cform is how the class attribute is held: the parser stores
\* a list of tokens, an assignment of a str stores the str.
Node(e, kidIds) ==
    [tag |-> e.tag, cls |-> e.cls, cform |-> "list", id |-> e.id, href |-> e.href,
     aria |-> e.aria, title |-> e.title, text |-> e.text, kids |-> kidIds]

RECURSIVE FlatForest(_, _)
FlatForest(f, b) ==
    IF f = << >> THEN << >>
    ELSE LET e == Head(f)
         IN  << Node(e, KidIds(e.kids, b + 1)) >>
                 \o FlatForest(e.kids, b + 1)
                 \o FlatForest(Tail(f), b + Size(e))

\* BeautifulSoup(html, 'html.parser')
Parse(html) ==
    [node |-> FlatForest(html.body, 0), top |-> KidIds(html.body, 0),
     dfns |-> html.dfns]

\* str(soup): node identities and the form of the class attribute are gone.
RECURSIVE SerNode(_, _), SerKids(_, _)
SerNode(s, n) ==
    LET r == s.node[n]
    IN  [tag |-> r.tag, cls |-> r.cls, id |-> r.id, href |-> r.href, aria |-> r.aria,
         title |-> r.title, text |-> r.text, kids |-> SerKids(s, r.kids)]
SerKids(s, ks) ==
    IF ks = << >> THEN << >>
    ELSE << SerNode(s, Head(ks)) >> \o SerKids(s, Tail(ks))

Serialize(s) == [dfns |-> s.dfns, body |-> SerKids(s, s.top)]

\* ------------------------------------------------------------ tree queries
\* the descendants of the nodes ks, in document order
RECURSIVE Desc(_, _)
Desc(s, ks) ==
    IF ks = << >> THEN << >>
    ELSE << Head(ks) >> \o Desc(s, s.node[Head(ks)].kids) \o Desc(s, Tail(ks))

Descendants(s, n) == Desc(s, s.node[n].kids)
InTree(s) == Range(Desc(s, s.top))

\* the parent of n: a node id, or None for a child of the document
ParentOf(s, n) ==
    IF \E q \in DOMAIN s.node : \E i \in DOMAIN s.node[q].kids : s.node[q].kids[i] = n
    THEN CHOOSE q \in DOMAIN s.node : \E i \in DOMAIN s.node[q].kids : s.node[q].kids[i] = n
    ELSE None

KidsOf(s, q) == IF q = None THEN s.top ELSE s.node[q].kids
IndexIn(ks, n) == CHOOSE i \in DOMAIN ks : ks[i] = n

\* class_='tok' against a tag: a token of the list, or the whole string
HasClass(r, tok) ==
    IF r.cform = "list" THEN tok \in Range(r.cls) ELSE r.cls = << tok >>
\* class_='marker dfn-exported': only the whole attribute value can match
ClassIsExactly(r, toks) == r.cls = toks

IsPanel(r)    == r.tag = "div" /\ HasClass(r, "dfn-panel")
IsSelfLink(r) == r.tag = "a" /\ HasClass(r, "self-link")
IsMarker(r)   == r.tag = "span" /\ ClassIsExactly(r, MarkerCls)
IsDiv(r)      == r.tag = "div"

FirstOf(ks, S) ==
    IF \E i \in DOMAIN ks : ks[i] \in S
    THEN ks[CHOOSE i \in DOMAIN ks : ks[i] \in S /\ \A j \in 1..(i - 1) : ks[j] \notin S]
    ELSE None

\* soup.find_all('div', class_='dfn-panel')
FindPanels(s) == SelectSeq(Desc(s, s.top), LAMBDA n : IsPanel(s.node[n]))
\* a variant of FindSelfLink that forgets class_: panel.find('a')
FindAnyAnchor(s, p) ==
    FirstOf(Descendants(s, p), { n \in DOMAIN s.node : s.node[n].tag = "a" })
\* panel.find('a', class_='self-link')
FindSelfLink(s, p) == FirstOf(Descendants(s, p), { n \in DOMAIN s.node : IsSelfLink(s.node[n]) })
\* panel.find('span', class_='marker dfn-exported')
FindMarker(s, p) == FirstOf(Descendants(s, p), { n \in DOMAIN s.node : IsMarker(s.node[n]) })
\* panel.div
PanelDiv(s, p) == FirstOf(Descendants(s, p), { n \in DOMAIN s.node : IsDiv(s.node[n]) })

\* dfn_map = {tag.get('id'): tag for tag in soup.find_all('dfn') if tag.get('id')}
\* and dfn_map.get(key): the last <dfn> with that id, or None
DfnMapGet(dfns, key) ==
    LET hits == { i \in DOMAIN dfns : dfns[i].id # NoStr /\ dfns[i].id = key }
    IN  IF hits = {} THEN None ELSE CHOOSE i \in hits : \A j \in hits : j <= i

ResolveDfn(dfns, pid) ==
    LET suffix == DfnSuffix(pid)
        first  == DfnMapGet(dfns, DfnIdOf(suffix))
    IN  IF first # None THEN first ELSE DfnMapGet(dfns, suffix)

\* 'export' in (dfn_tag.get('class') or []) or dfn_tag.has_attr('data-export')
IsExported(dfns, d) ==
    d # None /\ ("export" \in Range(dfns[d].cls) \/ dfns[d].dataExport)

\* ------------------------------------------------------------- tree edits
\* soup.new_tag(...): a tag that is in no tree yet; its id is the next free one
NewId(s) == Len(s.node) + 1
NewTag(s, r) == [s EXCEPT !.node = Append(@, r)]

SetKids(s, q, ks) ==
    IF q = None THEN [s EXCEPT !.top = ks] ELSE [s EXCEPT !.node[q].kids = ks]

\* parent.insert(0, n)
InsertFirst(s, q, n) == SetKids(s, q, << n >> \o KidsOf(s, q))
\* parent.append(n)
AppendChild(s, q, n) == SetKids(s, q, Append(KidsOf(s, q), n))
\* a.insert_after(n)
InsertAfter(s, a, n) ==
    LET q  == ParentOf(s, a)
        ks == KidsOf(s, q)
        i  == IndexIn(ks, a)
    IN  SetKids(s, q, SubSeq(ks, 1, i) \o << n >> \o SubSeq(ks, i + 1, Len(ks)))
\* a.next_sibling, as a truth value
HasNextSibling(s, a) ==
    LET ks == KidsOf(s, ParentOf(s, a)) IN IndexIn(ks, a) < Len(ks)
\* n.decompose(): n and its subtree leave the tree
Decompose(s, n) ==
    LET q  == ParentOf(s, n)
        ks == KidsOf(s, q)
    IN  SetKids(s, q, SelectSeq(ks, LAMBDA k : k # n))

NewAnchor ==
    [tag |-> "a", cls |-> SelfLinkCls, cform |-> "str", id |-> NoStr, href |-> NoStr,
     aria |-> NoStr, title |-> NoStr, text |-> NoStr, kids |-> << >>]
NewMarker ==
    [tag |-> "span", cls |-> MarkerCls, cform |-> "str", id |-> NoStr, href |-> NoStr,
     aria |-> NoStr,
     title |-> << "Definition can be referenced by other specifications" >>,
     text |-> << "exported" >>, kids |-> << >>]

\* a['href'] = ...; a.string = 'Permalink'; a['aria-label'] = ...
SetPermalink(s, a, dfn_id) ==
    [s EXCEPT !.node[a].href = HrefFor(dfn_id),
              !.node[a].text = << "Permalink" >>,
              !.node[a].kids = << >>,
              !.node[a].aria = AriaFor(dfn_id)]

\* ------------------------------------------- one iteration of the panel loop
\* The outcome of the loop body for panel p: err = an exception was raised
\* (AttributeError: 'NoneType' object has no attribute ...), soup = the
\* document as the body left it, a = the permalink anchor it worked on,
\* made = the marker it created (or None), hadNext = a.next_sibling was true
\* when the marker was placed.
Outcome(err, s, a, made, hadNext, skipped) ==
    [err |-> err, soup |-> s, a |-> a, made |-> made, hadNext |-> hadNext,
     skipped |-> skipped]

\* a variant of PlaceMarker that always appends to panel.div
PlaceMarkerAppend(s, p, a) ==
    LET m  == NewId(s)
        s1 == NewTag(s, NewMarker)
    IN  IF PanelDiv(s1, p) = None
        THEN Outcome(TRUE, s1, a, None, FALSE, FALSE)
        ELSE Outcome(FALSE, AppendChild(s1, PanelDiv(s1, p), m), a, m, FALSE, FALSE)

\* marker = soup.new_tag('span') ...; a.insert_after(marker) or
\* panel.div.append(marker)
PlaceMarker(s, p, a) ==
    LET m  == NewId(s)
        s1 == NewTag(s, NewMarker)
    IN  IF HasNextSibling(s1, a)
        THEN Outcome(FALSE, InsertAfter(s1, a, m), a, m, TRUE, FALSE)
        ELSE IF PanelDiv(s1, p) = None
             THEN Outcome(TRUE, s1, a, None, FALSE, FALSE)
             ELSE Outcome(FALSE, AppendChild(s1, PanelDiv(s1, p), m), a, m, FALSE, FALSE)

EnsureMarker(s, p, a) ==
    LET existing_marker == FindMarker(s, p)
        dfn_tag == ResolveDfn(s.dfns, s.node[p].id)
    IN  IF IsExported(s.dfns, dfn_tag)
        THEN IF existing_marker = None
             THEN PlaceMarker(s, p, a)
             ELSE Outcome(FALSE, s, a, None, FALSE, FALSE)
        ELSE IF existing_marker # None
             THEN Outcome(FALSE, Decompose(s, existing_marker), a, None, FALSE, FALSE)
             ELSE Outcome(FALSE, s, a, None, FALSE, FALSE)

\* the loop body past "continue": permalink, then marker
EditPanel(s, p) ==
    LET dfn_id == DfnIdOf(DfnSuffix(s.node[p].id))
        found  == FindSelfLink(s, p)
    IN  IF found = None /\ PanelDiv(s, p) = None
        THEN Outcome(TRUE, NewTag(s, NewAnchor), None, None, FALSE, FALSE)
        ELSE
        LET a  == IF found = None THEN NewId(s) ELSE found
            s1 == IF found = None
                  THEN InsertFirst(NewTag(s, NewAnchor), PanelDiv(s, p), a)
                  ELSE s
        IN  EnsureMarker(SetPermalink(s1, a, dfn_id), p, a)

\* a variant of ProcessPanel without "if not m: continue"
ProcessPanelNoSkip(s, p) == EditPanel(s, p)

ProcessPanel(s, p) ==
    IF ~PidMatches(s.node[p].id) THEN Outcome(FALSE, s, None, None, FALSE, TRUE)
    ELSE EditPanel(s, p)

\* the whole loop "for panel in panels", from the i-th panel on
RECURSIVE RunPanels(_, _, _)
RunPanels(s, panels, i) ==
    IF i > Len(panels) THEN [err |-> FALSE, soup |-> s]
    ELSE LET o == ProcessPanel(s, panels[i])
         IN  IF o.err THEN [err |-> TRUE, soup |-> o.soup]
             ELSE RunPanels(o.soup, panels, i + 1)

\* the per-document transform of process_file on a file content: parse, edit
\* every panel, serialize
Transform(html) ==
    LET s == Parse(html)
        r == RunPanels(s, FindPanels(s), 1)
    IN  IF r.err THEN [err |-> TRUE, html |-> html]
        ELSE [err |-> FALSE, html |-> Serialize(r.soup)]

\* ------------------------------------------------------------------- files
\* Path(f).with_suffix(Path(f).suffix + '.bak'): the name with '.bak' appended
Bak(p) == p \o << ".bak" >>

FileNames == { << "a" >>, << "a", ".bak" >> }
AllNames  == FileNames \cup { Bak(f) : f \in FileNames }

\* The bytes of a file: the document text and the line ending its lines have.
Eols == { "lf", "crlf" }

EmptyDoc == Doc(<< >>, << >>)
Absent   == [present |-> FALSE, eol |-> "lf", text |-> EmptyDoc]
File(d, eol) == [present |-> TRUE, eol |-> eol, text |-> d]

\* p.read_text(encoding='utf-8'): text mode with universal newlines, every
\* line ending is read as '\n'
ReadText(f) == f.text
\* p.write_text(s, encoding='utf-8'): text mode, every '\n' is written as
\* os.linesep
WriteText(s, sep) == File(s, sep)

\* the documents of the command line runs: one that is edited (and has a
\* panel that is skipped), one whose only panel raises, one whose second panel
\* raises after the first was edited
DocGood  == Doc(<< ExportedX >>, << With(PanelX, << PlainDiv >>), PanelP >>)
DocCrash == Doc(<< >>, << PanelX >>)
DocLate  == Doc(<< ExportedX >>, << With(PanelX, << PlainDiv >>), PanelY >>)
FileDocs == { DocGood, DocCrash, DocLate }

Faults == { "none", "read", "parse", "backup", "write" }

\* ------------------------------------------------------------------- state
VARIABLES
    args,     \* sys.argv[1:]
    linesep,  \* os.linesep of the platform
    disk,     \* the file system: name -> content, or Absent
    fault,    \* the I/O or parser call that fails in this run, if any
    k,        \* index in args of the file being processed
    pc,       \* where the program is
    status,   \* "running", "ok" (exit 0), "usage" (exit 2), "raised"
    html,     \* process_file: the text read
    soup,     \* process_file: the parsed document, edited in place
    panels,   \* process_file: the list of panels found after parsing
    i,        \* process_file: index in panels of the next panel
    soup0,    \* history: soup as it was parsed
    step,     \* history: the last iteration of the panel loop
    disk0,    \* history: disk when process_file was entered
    log       \* history: the file operations done, in order

vars == << args, linesep, disk, fault, k, pc, status, html, soup, panels, i,
           soup0, step, disk0, log >>

NoSoup == Parse(EmptyDoc)
NoStep == [p |-> None, a |-> None, made |-> None, skipped |-> FALSE, err |-> FALSE]
Event(op, n) == [op |-> op, k |-> n]

Init ==
    /\ args \in SeqsUpTo(FileNames, MaxArgs)
    /\ linesep \in Eols
    /\ \E e \in Eols :
           \E c \in [FileNames -> { File(d, e) : d \in FileDocs } \cup { Absent }] :
               disk = [f \in AllNames |-> IF f \in FileNames THEN c[f] ELSE Absent]
    /\ fault \in Faults
    /\ k = 1
    /\ pc = "start"
    /\ status = "running"
    /\ html = EmptyDoc
    /\ soup = NoSoup
    /\ panels = << >>
    /\ i = 1
    /\ soup0 = NoSoup
    /\ step = NoStep
    /\ disk0 = disk
    /\ log = << >>

\* The program in the panel loop of its only file argument, for every
\* generated document: the state Start, ReadFile and ParseDoc lead to.
InitDocs ==
    /\ args = << << "a" >> >>
    /\ linesep = "lf"
    /\ \E d \in Docs :
           /\ disk = [f \in AllNames |-> IF f = << "a" >> THEN File(d, "lf") ELSE Absent]
           /\ html = d
           /\ soup = Parse(d)
    /\ fault = "none"
    /\ k = 1
    /\ pc = "loop"
    /\ status = "running"
    /\ panels = FindPanels(soup)
    /\ i = 1
    /\ soup0 = soup
    /\ step = NoStep
    /\ disk0 = disk
    /\ log = << Event("read", 1) >>

Raise ==
    /\ pc' = "exit"
    /\ status' = "raised"

\* if len(sys.argv) < 2: print usage; sys.exit(2)
Usage ==
    /\ pc = "start" /\ Len(args) = 0
    /\ pc' = "exit" /\ status' = "usage"
    /\ UNCHANGED << args, linesep, disk, fault, k, html, soup, panels, i, soup0, step, disk0, log >>

Start ==
    /\ pc = "start" /\ Len(args) > 0
    /\ pc' = "main"
    /\ UNCHANGED << args, linesep, disk, fault, k, status, html, soup, panels, i, soup0, step,
                    disk0, log >>

\* for f in sys.argv[1:]: process_file(Path(f)) -- html = p.read_text(...)
ReadFile ==
    /\ pc = "main" /\ k <= Len(args)
    /\ disk[args[k]].present /\ fault # "read"
    /\ html' = ReadText(disk[args[k]])
    /\ disk0' = disk
    /\ log' = Append(log, Event("read", k))
    /\ pc' = "parse"
    /\ UNCHANGED << args, linesep, disk, fault, k, status, soup, panels, i, soup0, step >>

\* a variant of ReadFails that goes on with the next file
ReadFailsContinue ==
    /\ pc = "main" /\ k <= Len(args)
    /\ ~disk[args[k]].present \/ fault = "read"
    /\ disk0' = disk
    /\ k' = k + 1
    /\ UNCHANGED << args, linesep, disk, fault, pc, status, html, soup, panels, i, soup0, step, log >>

\* read_text raises: the file is not there, or it cannot be read or decoded
ReadFails ==
    /\ pc = "main" /\ k <= Len(args)
    /\ ~disk[args[k]].present \/ fault = "read"
    /\ disk0' = disk
    /\ Raise
    /\ UNCHANGED << args, linesep, disk, fault, k, html, soup, panels, i, soup0, step, log >>

\* soup = BeautifulSoup(html, 'html.parser'); dfn_map = ...; panels = ...
ParseDoc ==
    /\ pc = "parse" /\ fault # "parse"
    /\ soup' = Parse(html)
    /\ soup0' = soup'
    /\ panels' = FindPanels(soup')
    /\ i' = 1
    /\ step' = NoStep
    /\ pc' = "loop"
    /\ UNCHANGED << args, linesep, disk, fault, k, status, html, disk0, log >>

ParseFails ==
    /\ pc = "parse" /\ fault = "parse"
    /\ Raise
    /\ UNCHANGED << args, linesep, disk, fault, k, html, soup, panels, i, soup0, step, disk0, log >>

StepOf(o, p) ==
    [p |-> p, a |-> o.a, made |-> o.made, skipped |-> o.skipped, err |-> o.err]

\* loop body, "if not m: continue"
PanelSkip ==
    /\ pc = "loop" /\ i <= Len(panels)
    /\ LET o == ProcessPanel(soup, panels[i])
       IN  /\ o.skipped
           /\ soup' = o.soup
           /\ step' = StepOf(o, panels[i])
    /\ i' = i + 1
    /\ UNCHANGED << args, linesep, disk, fault, k, pc, status, html, panels, soup0, disk0, log >>

\* loop body that runs to its end
PanelEdit ==
    /\ pc = "loop" /\ i <= Len(panels)
    /\ LET o == ProcessPanel(soup, panels[i])
       IN  /\ ~o.skipped /\ ~o.err
           /\ soup' = o.soup
           /\ step' = StepOf(o, panels[i])
    /\ i' = i + 1
    /\ UNCHANGED << args, linesep, disk, fault, k, pc, status, html, panels, soup0, disk0, log >>

\* a variant of PanelRaises that saves what was edited so far
PanelRaisesSaving ==
    /\ pc = "loop" /\ i <= Len(panels)
    /\ LET o == ProcessPanel(soup, panels[i])
       IN  /\ o.err
           /\ soup' = o.soup
           /\ step' = StepOf(o, panels[i])
           /\ disk' = [disk EXCEPT ![args[k]] = WriteText(Serialize(o.soup), linesep)]
    /\ Raise
    /\ UNCHANGED << args, linesep, fault, k, html, panels, i, soup0, disk0, log >>

\* loop body that raises (panel.div is None)
PanelRaises ==
    /\ pc = "loop" /\ i <= Len(panels)
    /\ LET o == ProcessPanel(soup, panels[i])
       IN  /\ o.err
           /\ soup' = o.soup
           /\ step' = StepOf(o, panels[i])
    /\ Raise
    /\ UNCHANGED << args, linesep, disk, fault, k, html, panels, i, soup0, disk0, log >>

\* bak.write_text(html, encoding='utf-8')
WriteBackup ==
    /\ pc = "loop" /\ i > Len(panels) /\ fault # "backup"
    /\ disk' = [disk EXCEPT ![Bak(args[k])] = WriteText(html, linesep)]
    /\ log' = Append(log, Event("backup", k))
    /\ pc' = "write"
    /\ UNCHANGED << args, linesep, fault, k, status, html, soup, panels, i, soup0, step, disk0 >>

BackupFails ==
    /\ pc = "loop" /\ i > Len(panels) /\ fault = "backup"
    /\ Raise
    /\ UNCHANGED << args, linesep, disk, fault, k, html, soup, panels, i, soup0, step, disk0, log >>

\* p.write_text(str(soup), encoding='utf-8')
WriteFile ==
    /\ pc = "write" /\ fault # "write"
    /\ disk' = [disk EXCEPT ![args[k]] = WriteText(Serialize(soup), linesep)]
    /\ log' = Append(log, Event("write", k))
    /\ pc' = "print"
    /\ UNCHANGED << args, linesep, fault, k, status, html, soup, panels, i, soup0, step, disk0 >>

WriteFails ==
    /\ pc = "write" /\ fault = "write"
    /\ Raise
    /\ UNCHANGED << args, linesep, disk, fault, k, html, soup, panels, i, soup0, step, disk0, log >>

\* print(f"Processed {p} -> backup {bak}"); process_file returns
Processed ==
    /\ pc = "print"
    /\ k' = k + 1
    /\ pc' = "main"
    /\ UNCHANGED << args, linesep, disk, fault, status, html, soup, panels, i, soup0, step,
                    disk0, log >>

\* the for loop is exhausted: the interpreter exits with 0
Exit ==
    /\ pc = "main" /\ k > Len(args)
    /\ pc' = "exit" /\ status' = "ok"
    /\ UNCHANGED << args, linesep, disk, fault, k, html, soup, panels, i, soup0, step, disk0, log >>

Next ==
    \/ Usage \/ Start
    \/ ReadFile \/ ReadFails
    \/ ParseDoc \/ ParseFails
    \/ PanelSkip \/ PanelEdit \/ PanelRaises
    \/ WriteBackup \/ BackupFails
    \/ WriteFile \/ WriteFails
    \/ Processed \/ Exit

\* the command line runs on the sample documents
Spec == Init /\ [][Next]_vars
\* the same program, also started on every generated document
SpecDocs == (Init \/ InitDocs) /\ [][Next]_vars

\* ------------------------------------------------------------- properties
\* the panel loop of the current file has run to its end without raising
Edited ==
    /\ status = "running"
    /\ pc \in { "write", "print" } \/ (pc = "loop" /\ i > Len(panels))

\* the panels of the document whose id matches the pattern
MatchingPanels == { p \in Range(panels) : PidMatches(soup0.node[p].id) }
OtherPanels    == Range(panels) \ MatchingPanels

MarkersIn(s, p) == { n \in Range(Descendants(s, p)) : IsMarker(s.node[n]) }
AnchorsIn(s, p) == { n \in Range(Descendants(s, p)) : IsSelfLink(s.node[n]) }
PanelExported(p) == IsExported(soup.dfns, ResolveDfn(soup.dfns, soup0.node[p].id))

\* C1: the transform is idempotent: transforming the transformed document
\* succeeds and gives back the same document.
C1_Idempotent ==
    Edited => Transform(Serialize(soup)) = [err |-> FALSE, html |-> Serialize(soup)]

\* C2: after the transform a matching panel holds exactly one exported marker
\* if its resolved definition is exported, and none otherwise.
C2_MarkerCount ==
    Edited => \A p \in MatchingPanels :
        Cardinality(MarkersIn(soup, p)) = IF PanelExported(p) THEN 1 ELSE 0

\* C3: after the transform a matching panel holds exactly one permalink
\* anchor, with a non-empty href and the text 'Permalink'.
C3_OneAnchor ==
    Edited => \A p \in MatchingPanels :
        /\ Cardinality(AnchorsIn(soup, p)) = 1
        /\ \A a \in AnchorsIn(soup, p) :
               soup.node[a].href # NoStr /\ soup.node[a].text = << "Permalink" >>

\* C6: after the transform the permalink anchor of a matching panel whose
\* definition was resolved has the href '#' + the id of that definition.
C6_HrefIsDfnId ==
    Edited => \A p \in MatchingPanels :
        LET d == ResolveDfn(soup.dfns, soup0.node[p].id)
            a == FindSelfLink(soup, p)
        IN  d # None => a # None /\ soup.node[a].href = << "#" >> \o soup.dfns[d].id

\* the nodes of s that n is a descendant of
Ancestors(s, n) == { q \in DOMAIN s.node : n \in Range(Descendants(s, q)) }
InMatchingPanel(n) == Ancestors(soup0, n) \cap MatchingPanels # {}
SubtreeSame(p) ==
    \A n \in { p } \cup Range(Descendants(soup0, p)) : soup.node[n] = soup0.node[n]

\* C4 as it was claimed: a panel whose id is missing or does not match is
\* unchanged with its whole subtree, whatever panels are nested in it or
\* enclose it.
C4_SkippedUnchanged == \A p \in OtherPanels : SubtreeSame(p)

Isolated(p) ==
    /\ Ancestors(soup0, p) \cap MatchingPanels = {}
    /\ Range(Descendants(soup0, p)) \cap MatchingPanels = {}

\* C4, amended: a panel whose id is missing or does not match, that is not
\* inside a matching panel and contains none, is unchanged with its whole
\* subtree: same attributes, same children, at every point of the run.
C4_IsolatedSkippedUnchanged ==
    \A p \in OtherPanels : Isolated(p) => SubtreeSame(p)

\* C4 witness: the loop has edited the document, and it holds an isolated
\* non-matching panel that has an anchor or a marker of its own.
C4_Witness ==
    /\ Edited /\ soup # soup0
    /\ \E p \in OtherPanels :
           Isolated(p) /\ (AnchorsIn(soup0, p) # {} \/ MarkersIn(soup0, p) # {})

\* C5: the overwrite of file_path comes after the backup of the same run, and
\* once file_path is overwritten the backup holds exactly what file_path held
\* when the run started.
C5_BackupBeforeOverwrite ==
    /\ \A j \in DOMAIN log :
           log[j].op = "write" =>
               \E h \in 1..(j - 1) : log[h] = Event("backup", log[j].k)
    /\ pc = "print" =>
           /\ disk0[args[k]].present
           /\ disk[Bak(args[k])] = disk0[args[k]]

Done(n) ==
    \A op \in { "read", "backup", "write" } : \E j \in DOMAIN log : log[j] = Event(op, n)

\* C7: the files are processed in argument order, the k-th only after all
\* before it were read, backed up and overwritten; when an exception is
\* raised while processing the k-th, none after it is touched.
C7_AbortOnFirstError ==
    /\ \A j \in DOMAIN log : \A h \in 1..(j - 1) : log[h].k <= log[j].k
    /\ \A j \in DOMAIN log : log[j].k <= k
    /\ \A n \in 1..(k - 1) : Done(n)
    /\ status = "raised" => pc = "exit" /\ k <= Len(args)

\* C7 witness: the second of three files raised.
C7_Witness ==
    status = "raised" /\ k = 2 /\ Len(args) = 3

Old == DOMAIN soup0.node
OldKids(s, q) == SelectSeq(KidsOf(s, q), LAMBDA n : n \in Old)
StillThere(q) == SelectSeq(KidsOf(soup0, q), LAMBDA n : n \in InTree(soup))
Gone(q) == { n \in Range(KidsOf(soup0, q)) : n \notin InTree(soup) }

AnchorHadNext ==
    LET sibs == SelectSeq(KidsOf(soup, ParentOf(soup, step.a)), LAMBDA n : n # step.made)
    IN  IndexIn(sibs, step.a) < Len(sibs)
RightAfterAnchor ==
    LET ks == KidsOf(soup, ParentOf(soup, step.a))
    IN  IndexIn(ks, step.a) < Len(ks) /\ ks[IndexIn(ks, step.a) + 1] = step.made
LastChildOf(q) ==
    LET ks == KidsOf(soup, q) IN ks # << >> /\ ks[Len(ks)] = step.made

====
